---------------------------- MODULE Spec2Model ----------------------------
(***************************************************************************)
(* Model of the pybotgram type compiler (src/compiler/types/compiler.py):  *)
(* the pure rendering functions and the generate_types emission run.       *)
(* A Python str is a sequence of one-character strings, so that prefix     *)
(* tests, slices, replacements, regular-expression substitutions and       *)
(* sorting are computed character by character as the code computes them.  *)
(***************************************************************************)
EXTENDS Integers, Sequences, FiniteSets, TLC

VARIABLES
    types,      \* the TypesModel.types mapping, in insertion order
    fs0,        \* the output directory before the run
    fs,         \* the output directory: file name -> content
    pc,         \* position of generate_types
    i,          \* index of the type the loop of generate_types is at
    init_data,  \* dict file_name -> class_name, in insertion order
    cur,        \* locals of the current loop iteration
    call        \* the last direct call of a rendering function

vars == <<types, fs0, fs, pc, i, init_data, cur, call>>

-----------------------------------------------------------------------------
(* Python str and list operations                                          *)

Upper == {"A","B","C","D","E","F","G","H","I","J","K","L","M",
          "N","O","P","Q","R","S","T","U","V","W","X","Y","Z"}
Lower == {"a","b","c","d","e","f","g","h","i","j","k","l","m",
          "n","o","p","q","r","s","t","u","v","w","x","y","z"}
Digit == {"0","1","2","3","4","5","6","7","8","9"}

\* the characters of the model in code-point order (str comparison order);
\* "GRAVE" stands for the one character U+0060, which a TLA+ string
\* cannot hold
CodePoints == <<"\n"," ","!","\"","#","$","%","&","'","(",")","*","+",",","-",".","/","0","1","2","3","4","5","6","7","8","9",":",";","<","=",">","?","@","A","B","C","D","E","F","G","H","I","J","K","L","M","N","O","P","Q","R","S","T","U","V","W","X","Y","Z","[","\\","]","^","_","GRAVE","a","b","c","d","e","f","g","h","i","j","k","l","m","n","o","p","q","r","s","t","u","v","w","x","y","z","{","|","}","~">>

Ord(c) == CHOOSE k \in 1..Len(CodePoints) : CodePoints[k] = c

UpperSeq == <<"A","B","C","D","E","F","G","H","I","J","K","L","M","N","O","P","Q","R","S","T","U","V","W","X","Y","Z">>
LowerSeq == <<"a","b","c","d","e","f","g","h","i","j","k","l","m","n","o","p","q","r","s","t","u","v","w","x","y","z">>

\* str.lower() on one character
LowerChar(c) ==
    IF c \in Upper
    THEN LowerSeq[CHOOSE k \in 1..26 : UpperSeq[k] = c]
    ELSE c

\* s.lower()
StrLower(s) == [k \in 1..Len(s) |-> LowerChar(s[k])]

\* s[n:]
Slice(s, n) == IF n >= Len(s) THEN <<>> ELSE SubSeq(s, n + 1, Len(s))

\* s.startswith(p)
StartsWith(s, p) == Len(s) >= Len(p) /\ SubSeq(s, 1, Len(p)) = p

\* s.endswith(p)
EndsWith(s, p) ==
    Len(s) >= Len(p) /\ SubSeq(s, Len(s) - Len(p) + 1, Len(s)) = p

\* the position of the first occurrence of sub in s, 0 if none (s.find + 1)
StrFind(s, sub) ==
    LET hits == {q \in 1..(Len(s) - Len(sub) + 1) :
                   SubSeq(s, q, q + Len(sub) - 1) = sub}
    IN IF hits = {} THEN 0
       ELSE CHOOSE q \in hits : \A r \in hits : q <= r

\* s.replace(old, new, count) for a non-empty old; count < 0 replaces all
RECURSIVE StrReplace(_, _, _, _)
StrReplace(s, old, new, count) ==
    LET p == StrFind(s, old)
    IN IF p = 0 \/ count = 0 THEN s
       ELSE SubSeq(s, 1, p - 1) \o new
              \o StrReplace(Slice(s, p + Len(old) - 1), old, new,
                            IF count < 0 THEN count ELSE count - 1)

\* sep.join(parts)
RECURSIVE StrJoin(_, _)
StrJoin(sep, parts) ==
    IF parts = <<>> THEN <<>>
    ELSE IF Len(parts) = 1 THEN parts[1]
    ELSE parts[1] \o sep \o StrJoin(sep, Tail(parts))

\* a < b for str (code-point lexicographic order)
RECURSIVE StrLess(_, _)
StrLess(a, b) ==
    IF b = <<>> THEN FALSE
    ELSE IF a = <<>> THEN TRUE
    ELSE IF a[1] = b[1] THEN StrLess(Tail(a), Tail(b))
    ELSE Ord(a[1]) < Ord(b[1])

\* sorted(S) for a set of str
RECURSIVE Sorted(_)
Sorted(S) ==
    IF S = {} THEN <<>>
    ELSE LET m == CHOOSE x \in S : \A y \in S \ {x} : StrLess(x, y)
         IN <<m>> \o Sorted(S \ {m})

-----------------------------------------------------------------------------
(* Module constants of compiler.py                                         *)

NO_INDENT == <<>>
FOUR_SPACE_INDENT == <<" "," "," "," ">>
EIGHT_SPACE_INDENT == <<" "," "," "," "," "," "," "," ">>
TWELVE_SPACE_INDENT == <<" "," "," "," "," "," "," "," "," "," "," "," ">>

NEW_LINE == <<"\n">>
DOUBLE_NEW_LINE == <<"\n","\n">>

HEADER_IMPORT_TYPING == <<"i","m","p","o","r","t"," ","t","y","p","i","n","g">>
HEADER_TYPING_CHECKING == <<"i","f"," ","t","y","p","i","n","g",".","T","Y","P","E","_","C","H","E","C","K","I","N","G",":">>

PYBOTGRAM_TYPES_IMPORT == <<"f","r","o","m"," ","p","y","b","o","t","g","r","a","m",".","t","y","p","e","s"," ","i","m","p","o","r","t"," ">>

\* width of textwrap.fill when the call passes none
TEXTWRAP_WIDTH == 70

TYPES_MAP_KEYS == {<<"S","t","r","i","n","g">>, <<"I","n","t","e","g","e","r">>, <<"B","o","o","l","e","a","n">>, <<"F","l","o","a","t">>}

TYPES_MAP(t) ==
    CASE t = <<"S","t","r","i","n","g">> -> <<"s","t","r">>
      [] t = <<"I","n","t","e","g","e","r">> -> <<"i","n","t">>
      [] t = <<"B","o","o","l","e","a","n">> -> <<"b","o","o","l">>
      [] t = <<"F","l","o","a","t">> -> <<"f","l","o","a","t">>

-----------------------------------------------------------------------------
(* camel_to_snake                                                          *)

\* the end of the longest run of [a-z] that starts at position p of s
\* (p - 1 when s[p] is no lowercase letter)
RECURSIVE LowerRunEnd(_, _)
LowerRunEnd(s, p) ==
    IF p <= Len(s) /\ s[p] \in Lower THEN LowerRunEnd(s, p + 1) ELSE p - 1

\* re.sub(r"(.)([A-Z][a-z]+)", r"\1_\2", s), scanning from position p
RECURSIVE SubWordStart(_, _)
SubWordStart(s, p) ==
    IF p > Len(s) THEN <<>>
    ELSE IF /\ s[p] # "\n"
            /\ p + 2 <= Len(s)
            /\ s[p + 1] \in Upper
            /\ s[p + 2] \in Lower
         THEN LET q == LowerRunEnd(s, p + 2)
              IN <<s[p], "_">> \o SubSeq(s, p + 1, q) \o SubWordStart(s, q + 1)
         ELSE <<s[p]>> \o SubWordStart(s, p + 1)

\* re.sub(r"([a-z0-9])([A-Z])", r"\1_\2", s), scanning from position p
RECURSIVE SubLowerUpper(_, _)
SubLowerUpper(s, p) ==
    IF p > Len(s) THEN <<>>
    ELSE IF /\ s[p] \in Lower \cup Digit
            /\ p + 1 <= Len(s)
            /\ s[p + 1] \in Upper
         THEN <<s[p], "_", s[p + 1]>> \o SubLowerUpper(s, p + 2)
         ELSE <<s[p]>> \o SubLowerUpper(s, p + 1)

\* camel_to_snake without the final lower()
camel_to_snake_not_lowered(name) ==
    SubLowerUpper(SubWordStart(name, 1), 1)

camel_to_snake(name) ==
    StrLower(SubLowerUpper(SubWordStart(name, 1), 1))

-----------------------------------------------------------------------------
(* Type expression resolver                                                *)

ARRAY_OF == <<"A","r","r","a","y"," ","o","f">>
ARRAY_OF_SP == <<"A","r","r","a","y"," ","o","f"," ">>

\* _get_type of generate_field_type_docstring
RECURSIVE _get_type(_)
_get_type(t) ==
    IF t \in TYPES_MAP_KEYS
    THEN <<"GRAVE","GRAVE">> \o TYPES_MAP(t) \o <<"GRAVE","GRAVE">>
    ELSE IF StartsWith(t, ARRAY_OF)
         THEN <<"L","i","s","t"," ","o","f"," ">> \o _get_type(Slice(t, Len(ARRAY_OF_SP)))
         ELSE <<":","o","b","j",":","GRAVE","~","p","y","b","o","t","g","r","a","m",".","t","y","p","e","s",".">> \o t \o <<"GRAVE">>

\* the lambda is_required of generate_field_type_docstring
is_required(x) == IF ~x THEN <<","," ","*","o","p","t","i","o","n","a","l","*">> ELSE <<>>

\* generate_field_type_docstring with the optional marker on every member
generate_field_type_docstring_marked_per_member(field) ==
    StrJoin(<<" ","|"," ">>, [k \in 1..Len(field.types) |->
                       _get_type(field.types[k])
                         \o is_required(field.required)])

generate_field_type_docstring(field) ==
    StrJoin(<<" ","|"," ">>, [k \in 1..Len(field.types) |-> _get_type(field.types[k])])
        \o is_required(field.required)

\* _gen_type of generate_field_type
RECURSIVE _gen_type(_)
_gen_type(t) ==
    IF t \in TYPES_MAP_KEYS
    THEN TYPES_MAP(t)
    ELSE IF StartsWith(t, ARRAY_OF)
         THEN <<"l","i","s","t","[">> \o _gen_type(Slice(t, Len(ARRAY_OF_SP))) \o <<"]">>
         ELSE t

\* field_types of generate_field_type: the tokens, plus "None" when optional
field_types(field) ==
    IF ~field.required THEN Append(field.types, <<"N","o","n","e">>) ELSE field.types

generate_field_type(field) ==
    LET ft == field_types(field)
    IN StrJoin(<<" ","|"," ">>, [k \in 1..Len(ft) |-> _gen_type(ft[k])])

-----------------------------------------------------------------------------
(* Dependency collector                                                    *)

is_custom_type(type_n) ==
    type_n \notin TYPES_MAP_KEYS /\ ~StartsWith(type_n, ARRAY_OF_SP)

\* import_name stripping only the first "Array of "
import_name_outer_only(type_name) ==
    LET n == IF StartsWith(type_name, ARRAY_OF_SP)
             THEN StrReplace(type_name, ARRAY_OF_SP, <<>>, 1)
             ELSE type_name
    IN IF is_custom_type(n) THEN {n} ELSE {}

\* the body of the inner loop of generate_imports: the name a token adds to
\* result, as a set of at most one name
import_name(type_name) ==
    LET n == IF StartsWith(type_name, ARRAY_OF_SP)
             THEN StrReplace(type_name, ARRAY_OF_SP, <<>>, -1)
             ELSE type_name
    IN IF is_custom_type(n) THEN {n} ELSE {}

\* result of generate_imports after both loops
import_result(fields) ==
    UNION {UNION {import_name(fields[f].types[k]) :
                    k \in 1..Len(fields[f].types)} :
             f \in 1..Len(fields)}

\* generate_imports: <<typing import, TYPE_CHECKING block>>
generate_imports(fields) ==
    LET result == import_result(fields)
    IN IF result = {}
       THEN <<<<>>, <<>>>>
       ELSE LET types_import_line ==
                    FOUR_SPACE_INDENT \o PYBOTGRAM_TYPES_IMPORT
                        \o StrJoin(<<","," ">>, Sorted(result))
            IN <<<<"\n">> \o HEADER_IMPORT_TYPING \o <<"\n">>,
                 <<"\n">> \o HEADER_TYPING_CHECKING \o <<"\n">>
                     \o types_import_line \o <<"\n">>>>



-----------------------------------------------------------------------------
(* textwrap.fill as compiler.py calls it: default width, whitespace        *)
(* replaced and dropped, break_long_words=False, break_on_hyphens=False    *)

\* TextWrapper._munge_whitespace: every whitespace character becomes a space
Munge(text) == [k \in 1..Len(text) |-> IF text[k] = "\n" THEN " " ELSE text[k]]

\* the end of the run of characters of one class (space or not) at position p
RECURSIVE RunEnd(_, _, _)
RunEnd(s, p, blank) ==
    IF p <= Len(s) /\ ((s[p] = " ") = blank) THEN RunEnd(s, p + 1, blank)
    ELSE p - 1

\* TextWrapper._split with break_on_hyphens=False: words and whitespace runs
RECURSIVE Chunks(_)
Chunks(s) ==
    IF s = <<>> THEN <<>>
    ELSE LET q == RunEnd(s, 1, s[1] = " ")
         IN <<SubSeq(s, 1, q)>> \o Chunks(Slice(s, q))

\* chunk.strip() == ""
IsBlank(chunk) == \A k \in 1..Len(chunk) : chunk[k] = " "

\* how many leading chunks fit in width, cur_len characters being used
RECURSIVE FitCount(_, _, _)
FitCount(chunks, cur_len, width) ==
    IF chunks # <<>> /\ cur_len + Len(chunks[1]) <= width
    THEN 1 + FitCount(Tail(chunks), cur_len + Len(chunks[1]), width)
    ELSE 0

\* TextWrapper._wrap_chunks: the lines, given the lines made so far
RECURSIVE WrapChunks(_, _, _, _)
WrapChunks(chunks, lines, initial_indent, subsequent_indent) ==
    IF chunks = <<>> THEN lines
    ELSE LET indent == IF lines # <<>> THEN subsequent_indent
                       ELSE initial_indent
             width == TEXTWRAP_WIDTH - Len(indent)
             c1 == IF IsBlank(chunks[1]) /\ lines # <<>>
                   THEN Tail(chunks) ELSE chunks
             n == FitCount(c1, 0, width)
             \* _handle_long_word with break_long_words=False
             m == IF n = 0 /\ c1 # <<>> /\ Len(c1[1]) > width THEN 1 ELSE n
             taken == SubSeq(c1, 1, m)
             rest == SubSeq(c1, m + 1, Len(c1))
             cur_line == IF taken # <<>> /\ IsBlank(taken[Len(taken)])
                         THEN SubSeq(taken, 1, Len(taken) - 1) ELSE taken
             lines2 == IF cur_line # <<>>
                       THEN Append(lines, indent \o StrJoin(<<>>, cur_line))
                       ELSE lines
         IN WrapChunks(rest, lines2, initial_indent, subsequent_indent)

\* textwrap.fill(text, initial_indent=..., subsequent_indent=...)
TextwrapFill(text, initial_indent, subsequent_indent) ==
    StrJoin(<<"\n">>, WrapChunks(Chunks(Munge(text)), <<>>,
                              initial_indent, subsequent_indent))

-----------------------------------------------------------------------------
(* Docstring renderer                                                      *)

\* one paragraph of the description loop of generate_docstring, with the
\* separator that follows it
description_part(description, k) ==
    LET x == IF EndsWith(description[k], <<"o","f">>)
             THEN description[k] \o <<":">> ELSE description[k]
    IN TextwrapFill(x, IF k = 1 THEN NO_INDENT ELSE FOUR_SPACE_INDENT,
                    FOUR_SPACE_INDENT)
         \o (IF k = Len(description) THEN <<>>
             ELSE IF StartsWith(x, <<"-">>) THEN NEW_LINE
             ELSE DOUBLE_NEW_LINE)

\* docstring_field_name without the rename
docstring_field_name_kept(field) == field.name

\* field_name of generate_docstring
docstring_field_name(field) ==
    IF field.name = <<"f","r","o","m">> THEN <<"f","r","o","m","_","u","s","e","r">> ELSE field.name

\* field_header of generate_docstring
field_header(field) ==
    docstring_field_name(field) \o <<" ","(">>
        \o generate_field_type_docstring(field) \o <<")",":">>

\* field_description of generate_docstring
field_description(field) ==
    IF StartsWith(field.description, <<"O","p","t","i","o","n","a","l",".">>)
    THEN StrReplace(field.description, <<"O","p","t","i","o","n","a","l","."," ">>, <<>>, 1)
    ELSE field.description

\* one field of the field loop of generate_docstring, with its separator
docstring_field_part(fields, k) ==
    TextwrapFill(field_header(fields[k]),
                 EIGHT_SPACE_INDENT, EIGHT_SPACE_INDENT)
      \o <<"\n">>
      \o TextwrapFill(field_description(fields[k]),
                      TWELVE_SPACE_INDENT, TWELVE_SPACE_INDENT)
      \o (IF k = Len(fields) THEN <<>> ELSE <<"\n","\n">>)

generate_docstring(description, fields) ==
    StrJoin(<<>>, [k \in 1..Len(description) |->
                     description_part(description, k)])
      \o (IF Len(fields) > 0
          THEN <<"\n","\n">> \o FOUR_SPACE_INDENT \o <<"P","a","r","a","m","e","t","e","r","s",":","\n">>
          ELSE <<>>)
      \o StrJoin(<<>>, [k \in 1..Len(fields) |->
                          docstring_field_part(fields, k)])

-----------------------------------------------------------------------------
(* Field declaration renderer                                              *)

\* field_name of generate_fields
declaration_field_name(field) ==
    IF field.name = <<"f","r","o","m">> THEN <<"f","r","o","m","_","u","s","e","r">> ELSE field.name

\* field_value of generate_fields
field_value(field) == IF ~field.required THEN <<" ","="," ","N","o","n","e">> ELSE <<>>

\* declaration_part without the skip of the last iteration
declaration_part_always_newline(fields, k) ==
    (IF k = 1 THEN NO_INDENT ELSE FOUR_SPACE_INDENT)
      \o declaration_field_name(fields[k]) \o <<":"," ">>
      \o generate_field_type(fields[k]) \o field_value(fields[k])
      \o <<"\n">>

\* what one iteration of the loop of generate_fields adds to result
declaration_part(fields, k) ==
    (IF k = 1 THEN NO_INDENT ELSE FOUR_SPACE_INDENT)
      \o declaration_field_name(fields[k]) \o <<":"," ">>
      \o generate_field_type(fields[k]) \o field_value(fields[k])
      \o (IF k = Len(fields) THEN <<>> ELSE <<"\n">>)

generate_fields(fields) ==
    StrJoin(<<>>, [k \in 1..Len(fields) |-> declaration_part(fields, k)])

-----------------------------------------------------------------------------
(* Index file                                                              *)

\* init_data is a dict: a sequence of <<file_name, class_name>> in
\* insertion order, with at most one entry per file_name

DictKeys(d) == {d[k][1] : k \in 1..Len(d)}

\* d[key] = value
DictSet(d, key, value) ==
    IF key \in DictKeys(d)
    THEN [k \in 1..Len(d) |-> IF d[k][1] = key THEN <<key, value>> ELSE d[k]]
    ELSE Append(d, <<key, value>>)

generate_init_imports(data) ==
    StrJoin(<<>>, [k \in 1..Len(data) |->
                     <<"f","r","o","m"," ">> \o data[k][1] \o <<" ","i","m","p","o","r","t"," ">>
                         \o data[k][2] \o <<"\n">>])

\* the classes argument of the index template
init_classes(data) ==
    StrJoin(<<",","\n">>, [k \in 1..Len(data) |-> <<"\"">> \o data[k][2] \o <<"\"">>])

-----------------------------------------------------------------------------
(* Inputs                                                                  *)

MaxDepth == 2    \* nesting of "Array of " in a generated type token
MaxAlts == 2     \* type alternatives of a field given to the resolver
MaxFields == 2   \* fields of a field list given to a renderer
MaxWords == 3    \* words of a name given to camel_to_snake
MaxTypes == 2    \* types of a TypesModel

\* all sequences over S of length lo..hi
SeqsOf(S, lo, hi) == UNION {[1..n -> S] : n \in lo..hi}

FieldModel(n, t, r, d) ==
    [name |-> n, types |-> t, required |-> r, description |-> d]

\* tokens without array wrapping: the primitives, reference names, the empty
\* token, and a token that starts with "Array of" without the space
LeafTokens ==
    TYPES_MAP_KEYS \cup {<<"F","o","o">>, <<>>, <<"A","r","r","a","y"," ","o","f","F","o","o">>}

\* S wrapped in "Array of " at most d times
RECURSIVE Wrapped(_, _)
Wrapped(S, d) ==
    IF d = 0 THEN S
    ELSE S \cup {ARRAY_OF_SP \o t : t \in Wrapped(S, d - 1)}

Tokens == Wrapped(LeafTokens, MaxDepth)

\* fields given to generate_field_type and generate_field_type_docstring
TypeFields ==
    {FieldModel(<<"t","e","x","t">>, t, r, <<"T","e","x","t">>) :
       t \in SeqsOf(Tokens, 1, MaxAlts), r \in BOOLEAN}

\* the types of the fields given to generate_imports
ImportTypeLists ==
    {<<t>> : t \in Wrapped({<<"F","o","o">>}, MaxDepth)}
      \cup {<<<<"I","n","t","e","g","e","r">>>>, <<<<"B","a","r">>>>, <<<<"A","r","r","a","y"," ","o","f"," ","S","t","r","i","n","g">>>>,
            <<<<"A","r","r","a","y"," ","o","f"," ","B","a","r">>, <<"F","o","o">>>>,
            <<<<"A","r","r","a","y"," ","o","f"," ">>>>, <<<<"A","r","r","a","y"," ","o","f","F","o","o">>>>}

ImportFieldLists ==
    SeqsOf({FieldModel(<<"t","e","x","t">>, t, TRUE, <<"T","e","x","t">>) : t \in ImportTypeLists},
           0, MaxFields)

FieldNames == {<<"f","r","o","m">>, <<"t","e","x","t">>, <<"F","r","o","m">>}

\* fields given to generate_fields
DeclFieldLists ==
    SeqsOf({FieldModel(n, t, r, <<"T","e","x","t">>) :
              n \in FieldNames,
              t \in {<<<<"S","t","r","i","n","g">>>>, <<<<"A","r","r","a","y"," ","o","f"," ","U","s","e","r">>>>,
                     <<<<"I","n","t","e","g","e","r">>, <<"F","o","o">>>>},
              r \in BOOLEAN},
           0, MaxFields)

FieldDescriptions ==
    {<<"S","e","n","d","e","r"," ","o","f"," ","t","h","e"," ","m","e","s","s","a","g","e">>,
     <<"O","p","t","i","o","n","a","l","."," ","S","e","n","d","e","r"," ","o","f"," ","t","h","e"," ","m","e","s","s","a","g","e">>,
     <<"O","p","t","i","o","n","a","l",".","S","e","n","d","e","r"," ","O","p","t","i","o","n","a","l","."," ","T","i","t","l","e">>,
     <<"T","r","u","e",","," ","i","f"," ","O","p","t","i","o","n","a","l","."," ","a","p","p","l","i","e","s">>,
     <<"O","p","t","i","o","n","a","l","."," ","M","e","s","s","a","g","e"," ","t","h","a","t"," ","i","s"," ","b","e","i","n","g"," ","r","e","p","l","i","e","d"," ","t","o",";"," ","t","h","e"," ","f","i","e","l","d"," ","i","t","s","e","l","f"," ","w","i","l","l"," ","n","o","t"," ","c","o","n","t","a","i","n"," ","f","u","r","t","h","e","r"," ","f","i","e","l","d","s"," ","e","v","e","n"," ","i","f"," ","i","t"," ","i","s"," ","a"," ","r","e","p","l","y">>}

\* fields given to generate_docstring
DocFields ==
    {FieldModel(n, <<<<"U","s","e","r">>>>, FALSE, d) :
       n \in {<<"f","r","o","m">>, <<"t","e","x","t">>}, d \in FieldDescriptions}
      \cup {FieldModel(<<"F","r","o","m">>, <<<<"M","e","s","s","a","g","e">>, <<"A","r","r","a","y"," ","o","f"," ","I","n","a","c","c","e","s","s","i","b","l","e","M","e","s","s","a","g","e">>>>,
                       FALSE, <<"O","p","t","i","o","n","a","l","."," ","O","r","i","g","i","n">>)}
      \cup {FieldModel(<<"c","h","a","t">>, <<<<"I","n","t","e","g","e","r">>>>, TRUE, <<>>)}

DocFieldLists == SeqsOf(DocFields, 0, MaxFields)

TypeDescriptions ==
    {<<<<"T","h","i","s"," ","o","b","j","e","c","t"," ","r","e","p","r","e","s","e","n","t","s"," ","a"," ","m","e","s","s","a","g","e",".">>>>,
     <<<<"T","h","i","s"," ","o","b","j","e","c","t"," ","d","e","s","c","r","i","b","e","s"," ","t","h","e"," ","o","r","i","g","i","n","."," ","I","t"," ","c","a","n"," ","b","e"," ","o","n","e"," ","o","f">>,
       <<"-"," ","M","e","s","s","a","g","e","O","r","i","g","i","n","U","s","e","r">>, <<"-"," ","M","e","s","s","a","g","e","O","r","i","g","i","n","C","h","a","t">>>>,
     <<<<"A"," ","p","l","a","c","e","h","o","l","d","e","r",","," ","c","u","r","r","e","n","t","l","y"," ","h","o","l","d","s"," ","n","o"," ","i","n","f","o","r","m","a","t","i","o","n",";"," ","u","s","e"," ","B","o","t","F","a","t","h","e","r"," ","t","o"," ","s","e","t"," ","u","p"," ","y","o","u","r"," ","g","a","m","e"," ","i","n"," ","o","r","d","e","r"," ","t","o"," ","u","s","e"," ","i","t",".">>,
       <<"S","e","c","o","n","d"," ","p","a","r","a","g","r","a","p","h",".">>>>}

\* words of the names given to camel_to_snake
NameWords ==
    {<<"I","n","l","i","n","e">>, <<"Q","u","e","r","y">>, <<"R","e","s","u","l","t">>, <<"H","t","t","p">>, <<"H","T","T","P">>, <<"U","r","l","2">>, <<"X">>}

CamelNames ==
    {StrJoin(<<>>, w) : w \in SeqsOf(NameWords, 1, MaxWords)}

\* the declared types of a run of generate_types
ClassNames == {<<"M","e","s","s","a","g","e">>, <<"I","n","l","i","n","e","Q","u","e","r","y","R","e","s","u","l","t">>, <<"H","T","T","P","S","e","r","v","e","r">>, <<"H","t","t","p","S","e","r","v","e","r">>}

TypeFieldLists ==
    {<<>>,
     <<FieldModel(<<"t","e","x","t">>, <<<<"S","t","r","i","n","g">>>>, TRUE, <<"T","e","x","t"," ","o","f"," ","t","h","e"," ","m","e","s","s","a","g","e">>)>>,
     <<FieldModel(<<"f","r","o","m">>, <<<<"U","s","e","r">>>>, FALSE, <<"O","p","t","i","o","n","a","l","."," ","S","e","n","d","e","r">>),
       FieldModel(<<"p","h","o","t","o">>, <<<<"A","r","r","a","y"," ","o","f"," ","P","h","o","t","o","S","i","z","e">>>>, FALSE,
                  <<"O","p","t","i","o","n","a","l","."," ","A","v","a","i","l","a","b","l","e"," ","s","i","z","e","s"," ","o","f"," ","t","h","e"," ","p","h","o","t","o">>)>>}

TypeDefinition(n, d, f) == [name |-> n, description |-> d, fields |-> f]

\* TypesModel.types: a dict keyed by type name, so the names are distinct
TypeCollections ==
    {c \in SeqsOf({TypeDefinition(n, <<<<"T","h","i","s"," ","o","b","j","e","c","t"," ","r","e","p","r","e","s","e","n","t","s"," ","a"," ","m","e","s","s","a","g","e",".">>>>, f) :
                     n \in ClassNames, f \in TypeFieldLists},
                  1, MaxTypes) :
       \A a, b \in 1..Len(c) : a # b => c[a].name # c[b].name}

-----------------------------------------------------------------------------
(* Output files                                                            *)

INIT_FILE == <<"_","_","i","n","i","t","_","_",".","p","y">>

type_file(file_name) == file_name \o <<".","p","y">>

\* a file left by an earlier run
OldFile == [kind |-> "old"]

\* a file opened with mode "w" and not written
EmptyFile == [kind |-> "empty"]

\* format_str(template_file.format(...)) of save_types, by its slots
TypeFile(c) ==
    [kind |-> "type", std_imports |-> c.typing_import,
     imports |-> c.types_import, class_name |-> c.class_name,
     docstring |-> c.docstring, fields |-> c.fields]

\* format_str(init_template_text.format(...)) of generate_types
InitFile(data) ==
    [kind |-> "init", classes |-> init_classes(data),
     imports |-> generate_init_imports(data)]

\* the file names a run on the collection c can write
OutputNames(c) ==
    {type_file(camel_to_snake(c[k].name)) : k \in 1..Len(c)} \cup {INIT_FILE}

\* open(name, "w"): creates or truncates
OpenW(files, name) ==
    [n \in DOMAIN files \cup {name} |->
       IF n = name THEN EmptyFile ELSE files[n]]

\* f.write(content) on the file opened as name
WriteFile(files, name, content) ==
    [n \in DOMAIN files |-> IF n = name THEN content ELSE files[n]]

NoLocals == [class_name |-> <<>>]
NoCall == [fn |-> "none"]

-----------------------------------------------------------------------------
(* generate_types                                                          *)

Init ==
    /\ types \in TypeCollections
    /\ fs0 \in {<<>>, [n \in OutputNames(types) |-> OldFile]}
    /\ fs = fs0
    /\ pc = "loop"
    /\ i = 1
    /\ init_data = <<>>
    /\ cur = NoLocals
    /\ call = NoCall

\* the locals of the iteration of the for loop on the k-th type when
\* save_types is called
iteration_locals(k) ==
    LET class_name == types[k].name
        fields == types[k].fields
        imports == generate_imports(fields)
    IN [class_name |-> class_name,
        file_name |-> camel_to_snake(class_name),
        typing_import |-> imports[1],
        types_import |-> imports[2],
        docstring |-> generate_docstring(types[k].description, fields),
        fields |-> generate_fields(fields)]

\* one iteration of the for loop up to the call of save_types
RenderType ==
    /\ pc = "loop"
    /\ i <= Len(types)
    /\ cur' = iteration_locals(i)
    /\ init_data' = DictSet(init_data, cur'.file_name, cur'.class_name)
    /\ pc' = "save"
    /\ UNCHANGED <<types, fs0, fs, i, call>>

\* OpenTypeFile with the text formatted before the file is opened
OpenTypeFile_format_first ==
    /\ pc = "save"
    /\ pc' = "format"
    /\ UNCHANGED <<types, fs0, fs, i, init_data, cur, call>>

\* save_types: the file is opened for writing
OpenTypeFile ==
    /\ pc = "save"
    /\ fs' = OpenW(fs, type_file(cur.file_name))
    /\ pc' = "format"
    /\ UNCHANGED <<types, fs0, i, init_data, cur, call>>

\* save_types: format_str returns and its result is written
WriteTypeFile ==
    /\ pc = "format"
    /\ fs' = WriteFile(fs, type_file(cur.file_name), TypeFile(cur))
    /\ i' = i + 1
    /\ pc' = "loop"
    /\ UNCHANGED <<types, fs0, init_data, cur, call>>

\* save_types: format_str raises; the with block closes the file and the
\* exception leaves generate_types
FormatTypeFails ==
    /\ pc = "format"
    /\ pc' = "aborted"
    /\ UNCHANGED <<types, fs0, fs, i, init_data, cur, call>>

\* after the loop: __init__.py is opened for writing
OpenInitFile ==
    /\ pc = "loop"
    /\ i > Len(types)
    /\ fs' = OpenW(fs, INIT_FILE)
    /\ pc' = "init_format"
    /\ UNCHANGED <<types, fs0, i, init_data, cur, call>>

\* format_str returns and the index is written
WriteInitFile ==
    /\ pc = "init_format"
    /\ fs' = WriteFile(fs, INIT_FILE, InitFile(init_data))
    /\ pc' = "done"
    /\ UNCHANGED <<types, fs0, i, init_data, cur, call>>

\* format_str raises on the index text
FormatInitFails ==
    /\ pc = "init_format"
    /\ pc' = "aborted"
    /\ UNCHANGED <<types, fs0, fs, i, init_data, cur, call>>

Next ==
    \/ RenderType
    \/ OpenTypeFile
    \/ WriteTypeFile
    \/ FormatTypeFails
    \/ OpenInitFile
    \/ WriteInitFile
    \/ FormatInitFails

Spec == Init /\ [][Next]_vars

-----------------------------------------------------------------------------
(* Direct calls of the rendering functions                                 *)

InitFn ==
    /\ types = <<>>
    /\ fs0 = <<>>
    /\ fs = <<>>
    /\ pc = "idle"
    /\ i = 1
    /\ init_data = <<>>
    /\ cur = NoLocals
    /\ call = NoCall

\* a call that has returned
Returned(fn, arg, out) == [fn |-> fn, arg |-> arg, out |-> out]

CallCamelToSnake ==
    /\ call = NoCall
    /\ \E name \in CamelNames :
          call' = Returned("camel_to_snake", name, camel_to_snake(name))
    /\ UNCHANGED <<types, fs0, fs, pc, i, init_data, cur>>

CallGenerateFieldType ==
    /\ call = NoCall
    /\ \E field \in TypeFields :
          call' = Returned("generate_field_type", field,
                           generate_field_type(field))
    /\ UNCHANGED <<types, fs0, fs, pc, i, init_data, cur>>

CallGenerateFieldTypeDocstring ==
    /\ call = NoCall
    /\ \E field \in TypeFields :
          call' = Returned("generate_field_type_docstring", field,
                           generate_field_type_docstring(field))
    /\ UNCHANGED <<types, fs0, fs, pc, i, init_data, cur>>

CallGenerateImports ==
    /\ call = NoCall
    /\ \E fields \in ImportFieldLists :
          call' = Returned("generate_imports", fields,
                           generate_imports(fields))
    /\ UNCHANGED <<types, fs0, fs, pc, i, init_data, cur>>

CallGenerateDocstring ==
    /\ call = NoCall
    /\ \E description \in TypeDescriptions, fields \in DocFieldLists :
          call' = Returned("generate_docstring", <<description, fields>>,
                           generate_docstring(description, fields))
    /\ UNCHANGED <<types, fs0, fs, pc, i, init_data, cur>>

CallGenerateFields ==
    /\ call = NoCall
    /\ \E fields \in DeclFieldLists :
          call' = Returned("generate_fields", fields, generate_fields(fields))
    /\ UNCHANGED <<types, fs0, fs, pc, i, init_data, cur>>

NextFn ==
    \/ CallCamelToSnake
    \/ CallGenerateFieldType
    \/ CallGenerateFieldTypeDocstring
    \/ CallGenerateImports
    \/ CallGenerateDocstring
    \/ CallGenerateFields

SpecFn == InitFn /\ [][NextFn]_vars

-----------------------------------------------------------------------------
(* Reading rendered text back                                              *)

\* the position of the first occurrence of sep in s at or after p, 0 if none
FindFrom(s, sep, p) ==
    LET hits == {q \in p..(Len(s) - Len(sep) + 1) :
                   SubSeq(s, q, q + Len(sep) - 1) = sep}
    IN IF hits = {} THEN 0
       ELSE CHOOSE q \in hits : \A r \in hits : q <= r

\* the parts of s between the occurrences of a non-empty sep
RECURSIVE SplitOn(_, _)
SplitOn(s, sep) ==
    LET p == FindFrom(s, sep, 1)
    IN IF p = 0 THEN <<s>>
       ELSE <<SubSeq(s, 1, p - 1)>> \o SplitOn(Slice(s, p + Len(sep) - 1), sep)

\* the number of non-overlapping occurrences of sep in s
Occurrences(s, sep) == Len(SplitOn(s, sep)) - 1

Last(s) == s[Len(s)]

\* s without its leading spaces
RECURSIVE LStrip(_)
LStrip(s) == IF s # <<>> /\ s[1] = " " THEN LStrip(Tail(s)) ELSE s

Range(f) == {f[k] : k \in DOMAIN f}

UNION_BAR == <<" ","|"," ">>
NONE == <<"N","o","n","e">>
OPTIONAL_MARK == <<","," ","*","o","p","t","i","o","n","a","l","*">>

-----------------------------------------------------------------------------
(* C1: for a required field, generate_field_type resolves each token (a    *)
(* primitive through the table, "Array of X" to list[<resolved X>] at any  *)
(* depth, any other token unchanged) and joins the results with " | " in   *)
(* token order.                                                            *)

\* the resolution the claim states
RECURSIVE Resolved(_)
Resolved(t) ==
    IF t \in TYPES_MAP_KEYS THEN TYPES_MAP(t)
    ELSE IF StartsWith(t, ARRAY_OF_SP)
         THEN <<"l","i","s","t","[">> \o Resolved(Slice(t, Len(ARRAY_OF_SP))) \o <<"]">>
         ELSE t

\* C1: a required field's target expression is the " | " join of its
\* tokens, each resolved as stated
C1_ResolvesEveryToken ==
    (call.fn = "generate_field_type" /\ call.arg.required)
      => call.out = StrJoin(UNION_BAR,
                            [k \in 1..Len(call.arg.types) |->
                               Resolved(call.arg.types[k])])

\* a token that, under its "Array of " wrapping, starts with "Array of" not
\* followed by a space
RECURSIVE StartsArrayWithoutSpace(_)
StartsArrayWithoutSpace(t) ==
    IF StartsWith(t, ARRAY_OF_SP)
    THEN StartsArrayWithoutSpace(Slice(t, Len(ARRAY_OF_SP)))
    ELSE StartsWith(t, ARRAY_OF)

\* C1 for the fields none of whose tokens starts with "Array of" without the
\* space
C1_HoldsForSpacedArrayTokens ==
    (/\ call.fn = "generate_field_type"
     /\ call.arg.required
     /\ \A k \in 1..Len(call.arg.types) :
          ~StartsArrayWithoutSpace(call.arg.types[k]))
      => call.out = StrJoin(UNION_BAR,
                            [k \in 1..Len(call.arg.types) |->
                               Resolved(call.arg.types[k])])

-----------------------------------------------------------------------------
(* C2: for an optional field the target expression has None as its last    *)
(* union member and the documentation expression ends with ", *optional*", *)
(* which it holds exactly once; for a required field neither is added.     *)

\* C2: None is the last member and ", *optional*" the one-time suffix of an
\* optional field; a required field gets neither
C2_OptionalMarkers ==
    /\ call.fn = "generate_field_type"
         => LET members == SplitOn(call.out, UNION_BAR)
            IN IF call.arg.required
               THEN Len(members) = Len(call.arg.types)
               ELSE /\ Len(members) = Len(call.arg.types) + 1
                    /\ Last(members) = NONE
    /\ call.fn = "generate_field_type_docstring"
         => IF call.arg.required
            THEN /\ Occurrences(call.out, OPTIONAL_MARK) = 0
                 /\ Len(SplitOn(call.out, UNION_BAR)) = Len(call.arg.types)
            ELSE /\ EndsWith(call.out, OPTIONAL_MARK)
                 /\ Occurrences(call.out, OPTIONAL_MARK) = 1
                 /\ Len(SplitOn(call.out, UNION_BAR)) = Len(call.arg.types)

C2_Witness ==
    /\ call.fn = "generate_field_type_docstring"
    /\ ~call.arg.required
    /\ Len(call.arg.types) >= 2
    /\ EndsWith(call.out, OPTIONAL_MARK)

-----------------------------------------------------------------------------
(* C8: camel_to_snake turns a name made of capitalized words into the      *)
(* lowercase underscore-joined form; "InlineQueryResult" gives             *)
(* "inline_query_result"; the output holds no uppercase letter.            *)

\* a capital letter followed by one or more lowercase letters, repeated
IsCapitalizedWords(name) ==
    /\ name # <<>>
    /\ name[1] \in Upper
    /\ \A k \in 1..Len(name) :
         /\ name[k] \in Upper \cup Lower
         /\ name[k] \in Upper => (k < Len(name) /\ name[k + 1] \in Lower)

\* the words of the name in lowercase, joined by "_"
RECURSIVE UnderscoreJoined(_, _)
UnderscoreJoined(name, k) ==
    IF k > Len(name) THEN <<>>
    ELSE (IF name[k] \in Upper /\ k > 1 THEN <<"_">> ELSE <<>>)
           \o <<LowerChar(name[k])>> \o UnderscoreJoined(name, k + 1)

\* C8: capitalized words become lowercase words joined by "_"
C8_SnakeCase ==
    call.fn = "camel_to_snake"
      => /\ IsCapitalizedWords(call.arg)
              => call.out = UnderscoreJoined(call.arg, 1)
         /\ call.arg = <<"I","n","l","i","n","e","Q","u","e","r","y","R","e","s","u","l","t">>
              => call.out = <<"i","n","l","i","n","e","_","q","u","e","r","y","_","r","e","s","u","l","t">>
         /\ \A k \in 1..Len(call.out) : call.out[k] \notin Upper

C8_Witness ==
    /\ call.fn = "camel_to_snake"
    /\ call.arg = <<"I","n","l","i","n","e","Q","u","e","r","y","R","e","s","u","l","t">>
    /\ call.out = <<"i","n","l","i","n","e","_","q","u","e","r","y","_","r","e","s","u","l","t">>

-----------------------------------------------------------------------------
(* C3: generate_imports returns two empty strings when no field references *)
(* a non-primitive type; otherwise a non-empty typing import and a         *)
(* TYPE_CHECKING block whose import line lists exactly the deduplicated,   *)
(* name-sorted non-primitive names, "Array of " wrapping stripped at any   *)
(* depth; every permutation of the field list gives the same result.       *)

\* a token without its "Array of " wrapping
RECURSIVE Unwrapped(_)
Unwrapped(t) ==
    IF StartsWith(t, ARRAY_OF_SP) THEN Unwrapped(Slice(t, Len(ARRAY_OF_SP)))
    ELSE t

AllTokens(fields) ==
    UNION {Range(fields[f].types) : f \in 1..Len(fields)}

ReferencedNames(fields) ==
    {Unwrapped(t) : t \in AllTokens(fields)} \ TYPES_MAP_KEYS

IMPORT_BLOCK_HEAD ==
    <<"\n","i","f"," ","t","y","p","i","n","g",".","T","Y","P","E","_","C","H","E","C","K","I","N","G",":","\n"," "," "," "," ","f","r","o","m"," ","p","y","b","o","t","g","r","a","m",".","t","y","p","e","s"," ","i","m","p","o","r","t"," ">>

\* the names the import line of a TYPE_CHECKING block lists, in its order
ImportLineNames(block) ==
    SplitOn(SubSeq(block, Len(IMPORT_BLOCK_HEAD) + 1, Len(block) - 1), <<","," ">>)

Reordered(s) ==
    {[k \in 1..Len(s) |-> s[p[k]]] : p \in Permutations(1..Len(s))}

C3_WitnessNoReference ==
    /\ call.fn = "generate_imports"
    /\ Len(call.arg) = 1
    /\ call.out = <<<<>>, <<>>>>

-----------------------------------------------------------------------------
(* C10: the names generate_imports imports are exactly the reference names *)
(* that are leaves of the target expressions generate_field_type gives for *)
(* the same fields, and generate_field_type_docstring classifies every     *)
(* token as generate_field_type does.                                      *)

\* a union member without its list[...] wrapping, with the wrapping depth
RECURSIVE TargetLeaf(_, _)
TargetLeaf(m, depth) ==
    IF StartsWith(m, <<"l","i","s","t","[">>) /\ EndsWith(m, <<"]">>)
    THEN TargetLeaf(SubSeq(m, 6, Len(m) - 1), depth + 1)
    ELSE <<depth, m>>

TARGET_PRIMITIVES == {<<"s","t","r">>, <<"i","n","t">>, <<"b","o","o","l">>, <<"f","l","o","a","t">>}

\* the reference names that are leaves of a target expression
LeafNames(expr) ==
    {TargetLeaf(m, 0)[2] : m \in Range(SplitOn(expr, UNION_BAR))}
      \ (TARGET_PRIMITIVES \cup {NONE})

\* <<depth, kind, name>> of a member of a target expression
TargetShape(m) ==
    LET leaf == TargetLeaf(m, 0)
    IN <<leaf[1],
         IF leaf[2] \in TARGET_PRIMITIVES THEN "primitive" ELSE "reference",
         leaf[2]>>

DOC_LIST_OF == <<"L","i","s","t"," ","o","f"," ">>
DOC_OBJ_HEAD == <<":","o","b","j",":","GRAVE","~","p","y","b","o","t","g","r","a","m",".","t","y","p","e","s",".">>

\* <<depth, kind, name>> of a member of a documentation expression
RECURSIVE DocShape(_, _)
DocShape(m, depth) ==
    IF StartsWith(m, DOC_LIST_OF)
    THEN DocShape(Slice(m, Len(DOC_LIST_OF)), depth + 1)
    ELSE IF StartsWith(m, DOC_OBJ_HEAD)
         THEN <<depth, "reference",
                SubSeq(m, Len(DOC_OBJ_HEAD) + 1, Len(m) - 1)>>
         ELSE <<depth, "primitive", SubSeq(m, 3, Len(m) - 2)>>

SameClassification(field) ==
    LET required == [field EXCEPT !.required = TRUE]
        target == SplitOn(generate_field_type(required), UNION_BAR)
        doc == SplitOn(generate_field_type_docstring(required), UNION_BAR)
    IN /\ Len(target) = Len(doc)
       /\ \A k \in 1..Len(target) :
            TargetShape(target[k]) = DocShape(doc[k], 0)

\* C10: imported names = reference leaves of the target expressions, and
\* the documentation expression has the shape of the target expression
C10_ResolverAndCollectorAgree ==
    call.fn = "generate_imports"
      => /\ (IF call.out[2] = <<>> THEN {}
             ELSE Range(ImportLineNames(call.out[2])))
              = UNION {LeafNames(generate_field_type(call.arg[f])) :
                         f \in 1..Len(call.arg)}
         /\ \A f \in 1..Len(call.arg) : SameClassification(call.arg[f])

\* C10, first half, for the field lists none of whose tokens starts with
\* "Array of" without the space
C10_HoldsForSpacedArrayTokens ==
    (/\ call.fn = "generate_imports"
     /\ \A t \in UNION {Range(call.arg[f].types) : f \in 1..Len(call.arg)} :
          ~StartsArrayWithoutSpace(t))
      => (IF call.out[2] = <<>> THEN {}
          ELSE Range(ImportLineNames(call.out[2])))
           = UNION {LeafNames(generate_field_type(call.arg[f])) :
                      f \in 1..Len(call.arg)}

\* C10, second half alone: the documentation expression has the shape of
\* the target expression
C10_DocstringClassifiesAlike ==
    call.fn = "generate_imports"
      => \A f \in 1..Len(call.arg) : SameClassification(call.arg[f])

-----------------------------------------------------------------------------
(* Reading generate_fields and generate_docstring output back              *)

\* the name a field is to be rendered under
RenderedAs(name) == IF name = <<"f","r","o","m">> THEN <<"f","r","o","m","_","u","s","e","r">> ELSE name

\* the text of a line before its first occurrence of sep
Before(line, sep) == SplitOn(line, sep)[1]

\* the lines of the "Parameters:" section of a docstring
ParameterLines(docstring) ==
    LET head == <<"\n","\n"," "," "," "," ","P","a","r","a","m","e","t","e","r","s",":","\n">>
        p == FindFrom(docstring, head, 1)
    IN IF p = 0 THEN <<>>
       ELSE SplitOn(Slice(docstring, p + Len(head) - 1), <<"\n">>)

\* the field blocks of the section: a block starts at a non-empty line that
\* is the first line or follows an empty line
RECURSIVE FieldBlocks(_, _, _)
FieldBlocks(lines, k, blocks) ==
    IF k > Len(lines) THEN blocks
    ELSE IF lines[k] = <<>> THEN FieldBlocks(lines, k + 1, blocks)
    ELSE IF k = 1 \/ lines[k - 1] = <<>>
         THEN FieldBlocks(lines, k + 1, Append(blocks, <<lines[k]>>))
         ELSE FieldBlocks(lines, k + 1,
                          [blocks EXCEPT ![Len(blocks)] =
                             Append(blocks[Len(blocks)], lines[k])])

DocBlocks(docstring) == FieldBlocks(ParameterLines(docstring), 1, <<>>)

\* the field name in the header of a block
HeaderName(block) == Before(LStrip(block[1]), <<" ","(">>)

\* the description of a block: its 12-column lines, unwrapped
BlockDescription(block) ==
    LET ks == {k \in 1..Len(block) : StartsWith(block[k], TWELVE_SPACE_INDENT)}
        RECURSIVE Text(_)
        Text(k) ==
            IF k > Len(block) THEN <<>>
            ELSE IF k \in ks
                 THEN <<Slice(block[k], Len(TWELVE_SPACE_INDENT))>> \o Text(k + 1)
                 ELSE Text(k + 1)
    IN StrJoin(<<" ">>, Text(1))

-----------------------------------------------------------------------------
(* C4: generate_fields gives one declaration line per field, in field      *)
(* order, "<name>: <target-expression>" followed by " = None" iff the      *)
(* field is not required, joined by single newlines, no trailing newline.  *)

\* the declaration line of a field as the claim states it
DeclarationLine(field) ==
    RenderedAs(field.name) \o <<":"," ">> \o generate_field_type(field)
      \o (IF field.required THEN <<>> ELSE <<" ","="," ","N","o","n","e">>)

\* C4 as stated: every line is the bare declaration "<name>: <type>[ = None]"
C4_BareDeclarationLines ==
    call.fn = "generate_fields"
      => IF call.arg = <<>> THEN call.out = <<>>
         ELSE LET lines == SplitOn(call.out, <<"\n">>)
              IN /\ Len(lines) = Len(call.arg)
                 /\ \A k \in 1..Len(lines) :
                      lines[k] = DeclarationLine(call.arg[k])

\* C4 amended: one line per field in field order, every line after the
\* first preceded by four spaces, " = None" iff the field is not required
C4_DeclarationLines ==
    call.fn = "generate_fields"
      => IF call.arg = <<>> THEN call.out = <<>>
         ELSE LET lines == SplitOn(call.out, <<"\n">>)
              IN /\ Len(lines) = Len(call.arg)
                 /\ \A k \in 1..Len(lines) :
                      /\ lines[k] =
                           (IF k = 1 THEN <<>> ELSE FOUR_SPACE_INDENT)
                             \o DeclarationLine(call.arg[k])
                      /\ EndsWith(lines[k], <<" ","="," ","N","o","n","e">>)
                           <=> ~call.arg[k].required

C4_Witness ==
    /\ call.fn = "generate_fields"
    /\ Len(call.arg) = 2
    /\ call.arg[1].required
    /\ ~call.arg[2].required
    /\ Len(SplitOn(call.out, <<"\n">>)) = 2

-----------------------------------------------------------------------------
(* C5: a field named exactly "from" is rendered as "from_user" in the      *)
(* docstring field header and in the declaration line; "from" is never a   *)
(* rendered field name and no other name is changed.                       *)

\* C5: every rendered field name is the declared name, except "from", which
\* is rendered "from_user"
C5_FromIsFromUser ==
    /\ call.fn = "generate_fields"
         => LET lines == SplitOn(call.out, <<"\n">>)
            IN call.arg # <<>>
                 => /\ Len(lines) = Len(call.arg)
                    /\ \A k \in 1..Len(lines) :
                         LET name == Before(LStrip(lines[k]), <<":"," ">>)
                         IN /\ name = RenderedAs(call.arg[k].name)
                            /\ name # <<"f","r","o","m">>
    /\ call.fn = "generate_docstring"
         => LET blocks == DocBlocks(call.out)
                fields == call.arg[2]
            IN /\ Len(blocks) = Len(fields)
               /\ \A k \in 1..Len(blocks) :
                    /\ HeaderName(blocks[k]) = RenderedAs(fields[k].name)
                    /\ HeaderName(blocks[k]) # <<"f","r","o","m">>

C5_Witness ==
    /\ call.fn = "generate_docstring"
    /\ Len(call.arg[2]) = 2
    /\ call.arg[2][1].name = <<"t","e","x","t">>
    /\ call.arg[2][2].name = <<"f","r","o","m">>
    /\ HeaderName(DocBlocks(call.out)[2]) = <<"f","r","o","m","_","u","s","e","r">>

-----------------------------------------------------------------------------
(* C9: the description generate_docstring renders is the description       *)
(* without its leading "Optional." marker when it begins with the marker,  *)
(* and the description unchanged otherwise; nothing after the leading      *)
(* position is removed, and no rendered description begins with the marker *)
(* it began with.                                                          *)

OPTIONAL_DOT == <<"O","p","t","i","o","n","a","l",".">>

\* the description without its leading marker, with or without the space
\* that follows the marker
WithoutLeadingMarker(description) ==
    IF StartsWith(description, OPTIONAL_DOT)
    THEN {Slice(description, Len(OPTIONAL_DOT))}
           \cup (IF StartsWith(description, OPTIONAL_DOT \o <<" ">>)
                 THEN {Slice(description, Len(OPTIONAL_DOT) + 1)} ELSE {})
    ELSE {description}

\* C9: every rendered description is the declared one without its leading
\* marker
C9_LeadingMarkerStripped ==
    call.fn = "generate_docstring"
      => LET blocks == DocBlocks(call.out)
             fields == call.arg[2]
         IN /\ Len(blocks) = Len(fields)
            /\ \A k \in 1..Len(blocks) :
                 BlockDescription(blocks[k])
                   \in WithoutLeadingMarker(fields[k].description)

\* C9 for the descriptions in which a leading "Optional." is followed by a
\* space
C9_HoldsWhenSpaceFollows ==
    call.fn = "generate_docstring"
      => LET blocks == DocBlocks(call.out)
             fields == call.arg[2]
         IN \A k \in 1..Len(blocks) :
              (StartsWith(fields[k].description, OPTIONAL_DOT)
                 => StartsWith(fields[k].description, OPTIONAL_DOT \o <<" ">>))
                => BlockDescription(blocks[k])
                     \in WithoutLeadingMarker(fields[k].description)



-----------------------------------------------------------------------------
(* Reading the output directory                                            *)

\* the file of the k-th declared type
FileOf(k) == type_file(camel_to_snake(types[k].name))

Holds(name, content) == name \in DOMAIN fs /\ fs[name] = content

\* the file is as it was before the run
Untouched(name) ==
    /\ (name \in DOMAIN fs) = (name \in DOMAIN fs0)
    /\ name \in DOMAIN fs => fs[name] = fs0[name]

\* the last of the first n types that is written to the file of type k
LastWriter(k, n) ==
    CHOOSE j \in 1..n :
        /\ FileOf(j) = FileOf(k)
        /\ \A h \in 1..n : FileOf(h) = FileOf(k) => h <= j

-----------------------------------------------------------------------------
(* C6: after a successful run there is one file per declared type, named   *)
(* by its normalized identifier, and the index lists every declared type:  *)
(* one quoted class name and one import line per type, in collection       *)
(* order, whatever the names normalize to.                                 *)

IndexOfEveryType ==
    [kind |-> "init",
     classes |-> StrJoin(<<",","\n">>, [k \in 1..Len(types) |->
                                    <<"\"">> \o types[k].name \o <<"\"">>]),
     imports |-> StrJoin(<<>>, [k \in 1..Len(types) |->
                                  <<"f","r","o","m"," ">> \o camel_to_snake(types[k].name)
                                    \o <<" ","i","m","p","o","r","t"," ">> \o types[k].name \o <<"\n">>])]

OneFilePerType ==
    /\ \A k \in 1..Len(types) :
         /\ FileOf(k) \in DOMAIN fs
         /\ fs[FileOf(k)].kind = "type"
         /\ fs[FileOf(k)].class_name = types[k].name
    /\ Cardinality({n \in DOMAIN fs : fs[n].kind = "type"}) = Len(types)

\* C6: a finished run has written one file per type and an index of all types
C6_IndexListsEveryType ==
    pc = "done" => OneFilePerType /\ Holds(INIT_FILE, IndexOfEveryType)

\* C6 for the collections whose names normalize to distinct identifiers
C6_HoldsForDistinctIdentifiers ==
    (pc = "done" /\ \A a, b \in 1..Len(types) : a # b => FileOf(a) # FileOf(b))
      => OneFilePerType /\ Holds(INIT_FILE, IndexOfEveryType)

-----------------------------------------------------------------------------
(* C7: when the formatting collaborator fails the run aborts, writes no    *)
(* file of a later type and no index, and leaves no partial output.        *)

=============================================================================
